---- MODULE Spec2Model ----
(***************************************************************************)
(* Model of pytorch_segmentation/evaluation.py: the evaluation helpers     *)
(* (index selection, logit flattening, object-part pairing, IoU /          *)
(* precision / recall) and the per-batch driver validate_batch.            *)
(*                                                                         *)
(* Tensors are records [shape, data]: data is the row-major (contiguous)   *)
(* storage as a 1-indexed sequence, positions and indices are 0-based as   *)
(* in the source.  Matrices are functions [0..n-1 -> [0..n-1 -> Nat]].     *)
(* Real-valued results are exact fractions <<numerator, denominator>>.     *)
(* A call that raises returns Raise(kind) instead of Return(value).        *)
(***************************************************************************)
EXTENDS Integers, Sequences, FiniteSets, Bags, TLC

VARIABLES
    fn,                \* helper-call harness: the last helper call and its arguments
    out,               \* helper-call harness: what that call returned or raised
    prev,              \* helper-call harness: the call made before it (fn, out)
    heap,              \* the confusion-matrix arrays alive between calls, by object id
    overall_part_confusion_matrix,      \* caller's reference: None or an object id
    overall_semantic_confusion_matrix,  \* caller's reference: None or an object id
    batch,             \* the tensors of the last batch passed in, as the call left them
    ret,               \* what the last validate_batch call returned or raised
    processed          \* bag of the batches validate_batch has returned from

(***************************************************************************)
(* Bounds of the model                                                     *)
(***************************************************************************)
MaxCount == 5          \* largest cell count of the matrices given to the metrics
MaxN == 3              \* largest num_to_aggregate tried besides the program's 20
MaxLen == 4            \* longest annotation sequence given to get_valid_annos
MaxPixels == 4         \* most pixels (batch * height * width) of a flattened batch
MaxClasses == 3        \* most logit channels / number_of_classes given to flatten_logits
MaxAidedPixels == 2    \* most pixels of a batch given to outputs_tonp_gt
MaxBatches == 2        \* most batches of one evaluation pass
MaxBatchPixels == 2    \* most pixels of a batch given to validate_batch

(***************************************************************************)
(* Program constants                                                       *)
(***************************************************************************)
MASK_OUT_VALUE == 255
NUM_TO_AGGREGATE == 20
EPS == 1
NUM_OBJPART_CHANNELS == 41
NUM_SEMANTIC_CHANNELS == 21
None == 0

(***************************************************************************)
(* Generic helpers                                                         *)
(***************************************************************************)
Return(v) == [ok |-> TRUE, val |-> v]
Raise(kind) == [ok |-> FALSE, val |-> kind]

RECURSIVE SumTo(_, _)
\* f[0] + ... + f[k]
SumTo(f, k) == IF k < 0 THEN 0 ELSE f[k] + SumTo(f, k - 1)

RECURSIVE SumOver(_, _)
\* the sum of f over the finite set S
SumOver(f, S) ==
    IF S = {} THEN 0
    ELSE LET x == CHOOSE y \in S : TRUE IN f[x] + SumOver(f, S \ {x})

RECURSIVE ProdSet(_)
\* the product of the numbers in the finite set S
ProdSet(S) ==
    IF S = {} THEN 1
    ELSE LET x == CHOOSE y \in S : TRUE IN x * ProdSet(S \ {x})

Size(M) == Cardinality(DOMAIN M)
Idx(M) == 0 .. (Size(M) - 1)

RECURSIVE DiagTo(_, _)
\* np.diag(confusion_matrix): entries 0..k as a sequence (entry i at i + 1)
DiagTo(M, k) == IF k < 0 THEN <<>> ELSE Append(DiagTo(M, k - 1), M[k][k])
np_diag(M) == DiagTo(M, Size(M) - 1)

\* the sum of the entries of the vector f; the zero entries add nothing
np_sum(f) == SumOver(f, {j \in DOMAIN f : f[j] # 0})

RECURSIVE RowSumsTo(_, _)
\* confusion_matrix.sum(axis=1): one sum per row (ground-truth class)
RowSumsTo(M, k) ==
    IF k < 0 THEN <<>> ELSE Append(RowSumsTo(M, k - 1), np_sum(M[k]))
sum_axis1(M) == RowSumsTo(M, Size(M) - 1)

RECURSIVE ColSumsTo(_, _)
\* confusion_matrix.sum(axis=0): one sum per column (predicted class)
ColSumsTo(M, k) ==
    IF k < 0 THEN <<>>
    ELSE Append(ColSumsTo(M, k - 1), np_sum([i \in DOMAIN M |-> M[i][k]]))
sum_axis0(M) == ColSumsTo(M, Size(M) - 1)

\* the per-class vector (index i at position i + 1 of the sequences)
PerClass(nums, dens) == [i \in 0 .. (Len(nums) - 1) |-> <<nums[i + 1], dens[i + 1]>>]

(***************************************************************************)
(* get_iou                                                                 *)
(***************************************************************************)
get_iou_mut_union(M) ==
    LET intersection == np_diag(M)
        gt_set == sum_axis1(M)
        predicted_set == sum_axis0(M)
        union == [i \in 1 .. Len(gt_set) |-> gt_set[i] + predicted_set[i]]
        padded == [i \in 1 .. Len(union) |-> IF union[i] = 0 THEN EPS ELSE union[i]]
    IN  PerClass(intersection, padded)

get_iou(M) ==
    LET intersection == np_diag(M)
        gt_set == sum_axis1(M)
        predicted_set == sum_axis0(M)
        union == [i \in 1 .. Len(gt_set) |->
                     gt_set[i] + predicted_set[i] - intersection[i]]
        padded == [i \in 1 .. Len(union) |-> IF union[i] = 0 THEN EPS ELSE union[i]]
    IN  PerClass(intersection, padded)

(***************************************************************************)
(* get_precision_recall                                                    *)
(***************************************************************************)
\* np.max([x, 1.0])
np_max1(x) == IF x >= 1 THEN x ELSE 1

get_precision_recall_mut_swap(M) ==
    LET intersection == np_diag(M)
        gt_set == sum_axis0(M)
        predicted_set == sum_axis1(M)
        precision == PerClass(intersection,
                              [i \in 1 .. Len(predicted_set) |-> np_max1(predicted_set[i])])
        recall == PerClass(intersection, [i \in 1 .. Len(gt_set) |-> np_max1(gt_set[i])])
    IN  <<precision, recall>>

get_precision_recall(M) ==
    LET intersection == np_diag(M)
        gt_set == sum_axis1(M)
        predicted_set == sum_axis0(M)
        precision == PerClass(intersection,
                              [i \in 1 .. Len(predicted_set) |-> np_max1(predicted_set[i])])
        recall == PerClass(intersection, [i \in 1 .. Len(gt_set) |-> np_max1(gt_set[i])])
    IN  <<precision, recall>>

(***************************************************************************)
(* Tensors: row-major storage                                              *)
(***************************************************************************)
RECURSIVE Prod(_)
\* number of elements of a tensor of this shape
Prod(shape) == IF shape = <<>> THEN 1 ELSE Head(shape) * Prod(Tail(shape))

RECURSIVE Encode(_, _, _)
\* storage offset of the multi-index idx[1..k] in a contiguous tensor
Encode(idx, shape, k) ==
    IF k = 0 THEN 0 ELSE Encode(idx, shape, k - 1) * shape[k] + idx[k]

Offset(idx, shape) == Encode(idx, shape, Len(shape))

\* multi-index of storage offset q in a contiguous tensor
Decode(q, shape) ==
    [i \in 1 .. Len(shape) |-> (q \div Prod(SubSeq(shape, i + 1, Len(shape)))) % shape[i]]

InRange(idx, shape) ==
    /\ Len(idx) = Len(shape)
    /\ \A i \in 1 .. Len(shape) : idx[i] >= 0 /\ idx[i] < shape[i]

At(t, idx) == t.data[Offset(idx, t.shape) + 1]

Tensor(dtype, shape, data) == [dtype |-> dtype, shape |-> shape, data |-> data]

\* t.permute(*dims).contiguous(): dims are 0-based axis numbers
permute_contiguous(t, dims) ==
    LET nshape == [i \in 1 .. Len(dims) |-> t.shape[dims[i] + 1]]
        src(q) == LET nidx == Decode(q, nshape)
                      oidx == [a \in 1 .. Len(dims) |->
                                 nidx[CHOOSE i \in 1 .. Len(dims) : dims[i] + 1 = a]]
                  IN  Offset(oidx, t.shape)
    IN  Tensor(t.dtype, nshape, [k \in 1 .. Len(t.data) |-> t.data[src(k - 1) + 1]])

\* t.view(-1, n)
view_rows(t, n) ==
    IF Len(t.data) % n # 0
    THEN Raise("RuntimeError")
    ELSE Return(Tensor(t.dtype, <<Len(t.data) \div n, n>>, t.data))

RowLen(t) == Prod(Tail(t.shape))

\* torch.index_select(t, 0, index): the index must be a LongTensor
torch_index_select(t, index) ==
    IF index.dtype # "long"
    THEN Raise("TypeError")
    ELSE IF \E k \in 1 .. Len(index.data) :
               index.data[k] < 0 \/ index.data[k] >= t.shape[1]
    THEN Raise("IndexError")
    ELSE LET r == RowLen(t)
         IN  Return(Tensor(t.dtype, <<Len(index.data)>> \o Tail(t.shape),
                    [k \in 1 .. (Len(index.data) * r) |->
                        t.data[index.data[((k - 1) \div r) + 1] * r + ((k - 1) % r) + 1]]))

(***************************************************************************)
(* flatten_logits, get_valid_logits                                        *)
(***************************************************************************)
flatten_logits_mut_noperm(logits, number_of_classes) ==
    view_rows(logits, number_of_classes)

flatten_logits(logits, number_of_classes) ==
    LET logits_permuted_cont == permute_contiguous(logits, <<0, 2, 3, 1>>)
    IN  view_rows(logits_permuted_cont, number_of_classes)

get_valid_logits(logits, index, number_of_classes) ==
    LET logits_flatten == flatten_logits(logits, number_of_classes)
    IN  IF logits_flatten.ok
        THEN torch_index_select(logits_flatten.val, index)
        ELSE logits_flatten

(***************************************************************************)
(* flatten_annotations, get_valid_annotations_index, get_valid_annos       *)
(***************************************************************************)
flatten_annotations(annotations) ==
    Tensor(annotations.dtype, <<Len(annotations.data)>>, annotations.data)

RECURSIVE NonzeroUpTo(_, _, _)
\* torch.nonzero(data != mask), squeezed: the 0-based positions among the
\* first k elements, in increasing order
NonzeroUpTo(data, mask_out_value, k) ==
    IF k = 0 THEN <<>>
    ELSE NonzeroUpTo(data, mask_out_value, k - 1)
         \o (IF data[k] # mask_out_value THEN <<k - 1>> ELSE <<>>)

\* torch.Tensor([]) is an empty FloatTensor
get_valid_annotations_index(flat, mask_out_value) ==
    LET nonz == NonzeroUpTo(flat.data, mask_out_value, Len(flat.data))
    IN  IF Len(nonz) = 0
        THEN Tensor("float", <<0>>, <<>>)
        ELSE Tensor("long", <<Len(nonz)>>, nonz)

get_valid_annos(anno, mask_out_value) ==
    LET anno_flatten == flatten_annotations(anno)
        index == get_valid_annotations_index(anno_flatten, mask_out_value)
        anno_flatten_valid == torch_index_select(anno_flatten, index)
    IN  IF anno_flatten_valid.ok
        THEN Return(<<anno_flatten_valid.val, index>>)
        ELSE anno_flatten_valid

(***************************************************************************)
(* to_pair: the two nested definitions                                     *)
(***************************************************************************)
\* outputs_tonp_gt.to_pair: the pair only
outputs_tonp_gt_to_pair(ind, num_to_aggregate) ==
    IF ind > num_to_aggregate
    THEN <<ind - num_to_aggregate, ind>>
    ELSE <<ind, ind + num_to_aggregate>>

compress_objpart_logits_to_pair_mut_nosub(ind, num_to_aggregate) ==
    IF ind > num_to_aggregate
    THEN <<1, <<ind, ind>>>>
    ELSE <<0, <<ind, ind + num_to_aggregate>>>>

compress_objpart_logits_to_pair_mut_ge(ind, num_to_aggregate) ==
    IF ind >= num_to_aggregate
    THEN <<1, <<ind - num_to_aggregate, ind>>>>
    ELSE <<0, <<ind, ind + num_to_aggregate>>>>

\* compress_objpart_logits.to_pair: (task bit, pair)
compress_objpart_logits_to_pair(ind, num_to_aggregate) ==
    IF ind > num_to_aggregate
    THEN <<1, <<ind - num_to_aggregate, ind>>>>
    ELSE <<0, <<ind, ind + num_to_aggregate>>>>

(***************************************************************************)
(* outputs_tonp_gt                                                         *)
(***************************************************************************)
\* np.argmax of a two-element list: the first maximum, 0-based
np_argmax2(x0, x1) == IF x1 > x0 THEN 1 ELSE 0

\* the pixels the loop visits: anno > 0 and anno != 255
AidedPixel(v) == v > 0 /\ v # 255

aided_prediction_mut_global(logits, idx, anno_ind) ==
    CHOOSE c \in 0 .. (logits.shape[2] - 1) :
        \A d \in 0 .. (logits.shape[2] - 1) :
            At(logits, <<idx[1], c, idx[2], idx[3]>>) >= At(logits, <<idx[1], d, idx[2], idx[3]>>)

\* lines 219-221: the pair's channel with the higher logit at pixel idx
aided_prediction(logits, idx, anno_ind) ==
    LET channel_indices == outputs_tonp_gt_to_pair(anno_ind, NUM_TO_AGGREGATE)
    IN  channel_indices[np_argmax2(
            At(logits, <<idx[1], channel_indices[1], idx[2], idx[3]>>),
            At(logits, <<idx[1], channel_indices[2], idx[2], idx[3]>>)) + 1]

\* returns (predictions.flatten(), anno_np.flatten())
outputs_tonp_gt(logits, anno) ==
    LET n == Len(anno.data)
        visited == {k \in 1 .. n : AidedPixel(anno.data[k])}
        pair(k) == outputs_tonp_gt_to_pair(anno.data[k], NUM_TO_AGGREGATE)
        idx(k) == Decode(k - 1, anno.shape)
        readable(k) ==
            \A ci \in {pair(k)[1], pair(k)[2]} :
                InRange(<<idx(k)[1], ci, idx(k)[2], idx(k)[3]>>, logits.shape)
    IN  IF \E k \in visited : ~readable(k)
        THEN Raise("IndexError")
        ELSE Return(<<[k \in 1 .. n |->
                          IF k \in visited
                          THEN aided_prediction(logits, idx(k), anno.data[k])
                          ELSE 0],
                      anno.data>>)

(***************************************************************************)
(* numpyify_logits_and_annotations                                         *)
(***************************************************************************)
\* _logits.max(1): the channel with the largest score at pixel (b, h, w);
\* the logits of the pass have one largest channel per pixel
torch_max_index(logits, b, h, w) ==
    CHOOSE c \in 0 .. (logits.shape[2] - 1) :
        \A d \in 0 .. (logits.shape[2] - 1) :
            At(logits, <<b, c, h, w>>) >= At(logits, <<b, d, h, w>>)

\* returns (prediction_np.flatten(), anno_np.flatten())
numpyify_logits_and_annotations(logits, anno) ==
    LET pshape == <<logits.shape[1], logits.shape[3], logits.shape[4]>>
        prediction == [k \in 1 .. Prod(pshape) |->
                          LET idx == Decode(k - 1, pshape)
                          IN  torch_max_index(logits, idx[1], idx[2], idx[3])]
    IN  <<prediction, anno.data>>

(***************************************************************************)
(* sklearn.metrics.confusion_matrix with a fixed label list                *)
(***************************************************************************)
\* label_to_ind: the 0-based index of a label in the list, -1 when absent
label_index(labels, v) ==
    IF \E i \in 1 .. Len(labels) : labels[i] = v
    THEN (CHOOSE i \in 1 .. Len(labels) : labels[i] = v) - 1
    ELSE -1

RECURSIVE count_pairs(_, _, _, _, _)
\* M plus one count per pair (y_true[q], y_pred[q]), q <= k, of listed labels
count_pairs(M, y_true, y_pred, labels, k) ==
    IF k = 0 THEN M
    ELSE LET i == label_index(labels, y_true[k])
             j == label_index(labels, y_pred[k])
             rest == count_pairs(M, y_true, y_pred, labels, k - 1)
         IN  IF i >= 0 /\ j >= 0
             THEN [rest EXCEPT ![i][j] = @ + 1]
             ELSE rest

\* Pairs with a label outside the list are not counted.  sklearn raises
\* ValueError when y_true and y_pred differ in length and when none of the
\* labels occurs in y_true.
confusion_matrix(y_true, y_pred, labels) ==
    LET n == Len(labels)
        zeros == [i \in 0 .. (n - 1) |-> [j \in 0 .. (n - 1) |-> 0]]
    IN  IF Len(y_true) # Len(y_pred)
        THEN Raise("ValueError")
        ELSE IF \A k \in 1 .. Len(y_true) : label_index(labels, y_true[k]) < 0
        THEN Raise("ValueError")
        ELSE Return(count_pairs(zeros, y_true, y_pred, labels, Len(y_true)))

(***************************************************************************)
(* validate_batch                                                          *)
(***************************************************************************)
no_parts_mut_short == {0, 4, 9, 11, 18, 20, 24, 29, 31, 38}

no_parts == {0, 4, 9, 11, 18, 20, 24, 29, 31, 38, 40}

\* the label lists of the docstring: 0..40 and 0..20
OBJPART_LABELS == [i \in 1 .. NUM_OBJPART_CHANNELS |-> i - 1]
SEMANTIC_LABELS == [i \in 1 .. NUM_SEMANTIC_CHANNELS |-> i - 1]

ignore_background_mut_keep(anno_np) == anno_np

\* line 336: objpart_anno_np[objpart_anno_np == 0] = -1
ignore_background(anno_np) ==
    [k \in 1 .. Len(anno_np) |-> IF anno_np[k] = 0 THEN -1 ELSE anno_np[k]]

\* ndarray += ndarray
ndarray_add(A, B) == [i \in DOMAIN A |-> [j \in DOMAIN A[i] |-> A[i][j] + B[i][j]]]

accumulate_mut_overwrite(h, overall, current) == <<current, h>>

\* lines 350-358: bind the current matrix when there is no running matrix,
\* otherwise add it in place to the running one; gives (reference, heap)
accumulate(h, overall, current) ==
    IF overall = None
    THEN <<current, h>>
    ELSE <<overall, [h EXCEPT ![overall] = ndarray_add(@, h[current])]>>

\* np.mean of the fractions at the indices S
np_mean(fracs, S) ==
    LET D == ProdSet({fracs[i][2] : i \in S})
    IN  <<SumOver([i \in S |-> fracs[i][1] * (D \div fracs[i][2])], S),
          D * Cardinality(S)>>

\* the arrays still referenced once the call is over: the two arrays the
\* call created are freed unless a running reference was bound to them
live_heap(h, created, refs) ==
    IF \E r \in refs : r > Len(h) - created
    THEN h
    ELSE SubSeq(h, 1, Len(h) - created)

\* The whole call.  Gives [ret, batch, heap, part, semantic]: the result, the
\* caller's tensors after the call (anno.numpy() shares their memory), the
\* heap and the two running references to hand back.
validate_batch(b, h, overall_part, overall_semantic) ==
    LET sem == numpyify_logits_and_annotations(b.semantic_logits, b.semantic_anno)
        objpart == outputs_tonp_gt(b.objpart_logits, b.objpart_anno)
        failed(r, bb) == [ret |-> r, batch |-> bb, heap |-> h,
                          part |-> overall_part, semantic |-> overall_semantic]
    IN  IF ~objpart.ok THEN failed(objpart, b)
        ELSE
        LET objpart_prediction_np == objpart.val[1]
            objpart_anno_np == ignore_background(objpart.val[2])
            b1 == [b EXCEPT !.objpart_anno.data = objpart_anno_np]
            current_semantic == confusion_matrix(sem[2], sem[1], SEMANTIC_LABELS)
            current_objpart == confusion_matrix(objpart_anno_np, objpart_prediction_np,
                                                OBJPART_LABELS)
        IN  IF ~current_semantic.ok THEN failed(current_semantic, b1)
            ELSE IF ~current_objpart.ok THEN failed(current_objpart, b1)
            ELSE
            LET sem_id == Len(h) + 1
                part_id == Len(h) + 2
                h1 == h \o <<current_semantic.val, current_objpart.val>>
                acc_sem == accumulate(h1, overall_semantic, sem_id)
                acc_part == accumulate(acc_sem[2], overall_part, part_id)
                h2 == acc_part[2]
                semantic_IoU == get_iou(h2[sem_id])
                semantic_mIoU == np_mean(semantic_IoU, DOMAIN semantic_IoU)
                pr == get_precision_recall(h2[part_id])
                objpart_mPrec == np_mean(pr[1], DOMAIN pr[1] \ no_parts)
                objpart_mRec == np_mean(pr[2], DOMAIN pr[2] \ no_parts)
            IN  [ret |-> Return([objpart_mPrec |-> objpart_mPrec,
                                 objpart_mRec |-> objpart_mRec,
                                 semantic_mIoU |-> semantic_mIoU,
                                 overall_part_confusion_matrix |-> acc_part[1],
                                 overall_semantic_confusion_matrix |-> acc_sem[1]]),
                 batch |-> b1,
                 heap |-> live_heap(h2, 2, {acc_part[1], acc_sem[1]}),
                 part |-> acc_part[1],
                 semantic |-> acc_sem[1]]

(***************************************************************************)
(* Inputs of the helper calls                                              *)
(***************************************************************************)
SquareMatrices(n, c) == [0 .. (n - 1) -> [0 .. (n - 1) -> 0 .. c]]
TestMatrices == SquareMatrices(1, MaxCount) \cup SquareMatrices(2, MaxCount)
                \cup SquareMatrices(3, 1)

TestN == (1 .. MaxN) \cup {NUM_TO_AGGREGATE}

\* annotation sequences for get_valid_annos: background, a class, the sentinel
AnnoLabels == {0, 3, MASK_OUT_VALUE}
MaskValues == {MASK_OUT_VALUE, 0}
TestAnnoSeqs ==
    UNION {{Tensor("long", <<n>>, d) : d \in [1 .. n -> AnnoLabels]} : n \in 1 .. MaxLen}

\* (batch, height, width) shapes of at most maxpix pixels
Shapes3(maxpix) ==
    {s \in (1 .. maxpix) \X (1 .. maxpix) \X (1 .. maxpix) : s[1] * s[2] * s[3] <= maxpix}

AnnoTensors(shapes, labels) ==
    UNION {{Tensor("long", s, d) : d \in [1 .. Prod(s) -> labels]} : s \in shapes}

\* logits of shape (B, C, H, W) whose elements are all different
CodeLogits(s, C) ==
    Tensor("float", <<s[1], C, s[2], s[3]>>, [k \in 1 .. (Prod(s) * C) |-> k])

\* object-part annotations for outputs_tonp_gt: background, sentinel, object
\* and part labels, and a label past the last channel
AidedLabels == {0, MASK_OUT_VALUE, 5, 25, 20, 40, 41}
HotChannels == {5, 25, 7}

\* logits of shape (B, C, H, W): at every pixel channel a scores 2, channel b
\* scores 1, the others 0; with alt, a and b change places on odd positions
HotLogits(s, C, a, b, alt) ==
    LET shape == <<s[1], C, s[2], s[3]>>
        val(q) ==
            LET idx == Decode(q, shape)
                pos == Offset(<<idx[1], idx[3], idx[4]>>, s)
                hi == IF alt /\ pos % 2 = 1 THEN b ELSE a
                lo == IF alt /\ pos % 2 = 1 THEN a ELSE b
            IN  IF idx[2] = hi THEN 2 ELSE IF idx[2] = lo THEN 1 ELSE 0
    IN  Tensor("float", shape, [k \in 1 .. Prod(shape) |-> val(k - 1)])

NoCall == [op |-> "none"]

\* Batches of the pass: the validation loader has batch_size 1.  A pixel is
\* background, masked, an object pixel of class 5 or a part pixel of class 5
\* (semantic label, object-part label).
PixelTruth == << <<0, 0>>, <<MASK_OUT_VALUE, MASK_OUT_VALUE>>, <<5, 5>>, <<5, 25>> >>
\* what the network scores highest: (semantic channel, object-part channel
\* with the highest score, object-part channel with the second highest); in
\* the second pattern the highest object-part channel belongs to another pair
LogitPatterns == {<<5, 5, 25>>, <<0, 7, 25>>}

\* The images are strips cut from a scene that repeats the pixels of
\* PixelTruth in their order: the strip of w pixels that starts at pixel i.
PixelRows(w) ==
    {[k \in 1 .. w |-> ((i + k - 2) % Len(PixelTruth)) + 1] : i \in 1 .. Len(PixelTruth)}

Batches ==
    UNION {{[semantic_logits |-> HotLogits(<<1, 1, w>>, NUM_SEMANTIC_CHANNELS,
                                           lp[1], lp[1], FALSE),
             semantic_anno |-> Tensor("long", <<1, 1, w>>,
                                      [k \in 1 .. w |-> PixelTruth[px[k]][1]]),
             objpart_logits |-> HotLogits(<<1, 1, w>>, NUM_OBJPART_CHANNELS,
                                          lp[2], lp[3], FALSE),
             objpart_anno |-> Tensor("long", <<1, 1, w>>,
                                     [k \in 1 .. w |-> PixelTruth[px[k]][2]])]
            : px \in PixelRows(w), lp \in LogitPatterns}
           : w \in 1 .. MaxBatchPixels}

(***************************************************************************)
(* Helper-call harness: one action per helper, each called on fresh       *)
(* arguments from the idle state                                           *)
(***************************************************************************)
fnvars == <<fn, out, prev>>
passvars == <<heap, overall_part_confusion_matrix, overall_semantic_confusion_matrix,
              batch, ret, processed>>
vars == <<fnvars, passvars>>

Init ==
    /\ fn = NoCall
    /\ out = Return(<<>>)
    /\ prev = <<>>
    /\ heap = <<>>
    /\ overall_part_confusion_matrix = None
    /\ overall_semantic_confusion_matrix = None
    /\ batch = <<>>
    /\ ret = Return(<<>>)
    /\ processed = EmptyBag

Call_get_iou ==
    \E M \in TestMatrices :
        /\ fn = NoCall
        /\ fn' = [op |-> "get_iou", confusion_matrix |-> M]
        /\ out' = Return(get_iou(M))
        /\ prev' = <<>>
        /\ UNCHANGED passvars

Call_get_precision_recall ==
    \E M \in TestMatrices :
        /\ fn = NoCall
        /\ fn' = [op |-> "get_precision_recall", confusion_matrix |-> M]
        /\ out' = Return(get_precision_recall(M))
        /\ prev' = <<>>
        /\ UNCHANGED passvars

\* both nested to_pair definitions applied to the same arguments
Call_to_pair ==
    \E N \in TestN : \E L \in 1 .. (2 * N) :
        /\ fn = NoCall
        /\ fn' = [op |-> "to_pair", ind |-> L, num_to_aggregate |-> N]
        /\ out' = Return([compress |-> compress_objpart_logits_to_pair(L, N),
                          tonp |-> outputs_tonp_gt_to_pair(L, N)])
        /\ prev' = <<>>
        /\ UNCHANGED passvars

\* to_pair applied to the part index the previous to_pair call returned
Call_to_pair_again ==
    /\ fn.op = "to_pair"
    /\ prev = <<>>
    /\ LET P == out.val.compress[2][2]
           N == fn.num_to_aggregate
       IN  /\ fn' = [op |-> "to_pair", ind |-> P, num_to_aggregate |-> N]
           /\ out' = Return([compress |-> compress_objpart_logits_to_pair(P, N),
                             tonp |-> outputs_tonp_gt_to_pair(P, N)])
           /\ prev' = <<fn, out>>
           /\ UNCHANGED passvars

Call_get_valid_annos ==
    \E anno \in TestAnnoSeqs : \E mask_out_value \in MaskValues :
        /\ fn = NoCall
        /\ fn' = [op |-> "get_valid_annos", anno |-> anno,
                  mask_out_value |-> mask_out_value]
        /\ out' = get_valid_annos(anno, mask_out_value)
        /\ prev' = <<>>
        /\ UNCHANGED passvars

Call_flatten_logits ==
    \E s \in Shapes3(MaxPixels) : \E C \in 1 .. MaxClasses :
    \E number_of_classes \in 1 .. MaxClasses :
        /\ fn = NoCall
        /\ fn' = [op |-> "flatten_logits", logits |-> CodeLogits(s, C),
                  number_of_classes |-> number_of_classes]
        /\ out' = flatten_logits(CodeLogits(s, C), number_of_classes)
        /\ prev' = <<>>
        /\ UNCHANGED passvars

\* get_valid_annos, then get_valid_logits with the index it returned
Call_get_valid_logits ==
    \E anno \in AnnoTensors(Shapes3(MaxPixels), {3, MASK_OUT_VALUE}) :
    \E C \in 1 .. MaxClasses : \E number_of_classes \in 1 .. MaxClasses :
        LET logits == CodeLogits(anno.shape, C)
            valid == get_valid_annos(anno, MASK_OUT_VALUE)
        IN  /\ fn = NoCall
            /\ fn' = [op |-> "get_valid_logits", logits |-> logits, anno |-> anno,
                      number_of_classes |-> number_of_classes]
            /\ out' = IF ~valid.ok THEN valid
                      ELSE LET sel == get_valid_logits(logits, valid.val[2],
                                                       number_of_classes)
                           IN  IF sel.ok
                               THEN Return([anno_flatten_valid |-> valid.val[1],
                                            index |-> valid.val[2],
                                            logits_valid |-> sel.val])
                               ELSE sel
            /\ prev' = <<>>
            /\ UNCHANGED passvars
        /\ UNCHANGED passvars

Call_outputs_tonp_gt ==
    \E anno \in AnnoTensors(Shapes3(MaxAidedPixels), AidedLabels) :
    \E a \in HotChannels : \E b \in HotChannels : \E alt \in BOOLEAN :
        LET logits == HotLogits(anno.shape, NUM_OBJPART_CHANNELS, a, b, alt)
        IN  /\ fn = NoCall
            /\ fn' = [op |-> "outputs_tonp_gt", logits |-> logits, anno |-> anno]
            /\ out' = outputs_tonp_gt(logits, anno)
            /\ prev' = <<>>
            /\ UNCHANGED passvars
        /\ UNCHANGED passvars

NextFn ==
    \/ Call_get_iou
    \/ Call_get_precision_recall
    \/ Call_to_pair
    \/ Call_to_pair_again
    \/ Call_get_valid_annos
    \/ Call_flatten_logits
    \/ Call_get_valid_logits
    \/ Call_outputs_tonp_gt

SpecFn == Init /\ [][NextFn]_vars

(***************************************************************************)
(* The evaluation pass: the caller starts with no running matrices and     *)
(* hands each batch to validate_batch together with the matrices the       *)
(* previous call returned; an exception ends the pass.                     *)
(***************************************************************************)
ValidateBatch ==
    \E b \in Batches :
        /\ ret.ok
        /\ BagCardinality(processed) < MaxBatches
        /\ \E r \in {validate_batch(b, heap, overall_part_confusion_matrix,
                                      overall_semantic_confusion_matrix)} :
               /\ ret' = r.ret
               /\ batch' = <<r.batch>>
               /\ heap' = r.heap
               /\ overall_part_confusion_matrix' =
                      IF r.ret.ok THEN r.ret.val.overall_part_confusion_matrix
                      ELSE overall_part_confusion_matrix
               /\ overall_semantic_confusion_matrix' =
                      IF r.ret.ok THEN r.ret.val.overall_semantic_confusion_matrix
                      ELSE overall_semantic_confusion_matrix
               /\ processed' = IF r.ret.ok THEN processed (+) SetToBag({b})
                               ELSE processed
        /\ UNCHANGED fnvars

Next == ValidateBatch

Spec == Init /\ [][Next]_vars

(***************************************************************************)
(* Properties                                                              *)
(***************************************************************************)
RowTotal(M, i) == SumOver([j \in DOMAIN M |-> M[i][j]], DOMAIN M)
ColTotal(M, i) == SumOver([j \in DOMAIN M |-> M[j][i]], DOMAIN M)
\* fraction a equals n / d
FracIs(a, n, d) == a[2] > 0 /\ d > 0 /\ a[1] * d = n * a[2]
FracInUnit(a) == a[2] > 0 /\ 0 <= a[1] /\ a[1] <= a[2]

ScenarioMatrix == (0 :> (0 :> 5 @@ 1 :> 1)) @@ (1 :> (0 :> 2 @@ 1 :> 3))

\* C2: get_iou returns, per class in label order, diag / u with
\* u = row_sum + col_sum - diag replaced by 1 when it is 0; every value is in
\* [0, 1], a class never seen and never predicted gets 0, and the scenario
\* matrix [[5,1],[2,3]] gives [5/8, 3/6].
C2_IouFormula ==
    fn.op = "get_iou" =>
        LET M == fn.confusion_matrix
            iou == out.val
        IN  /\ out.ok
            /\ DOMAIN iou = DOMAIN M
            /\ \A i \in DOMAIN M :
                 LET u0 == RowTotal(M, i) + ColTotal(M, i) - M[i][i]
                     u == IF u0 = 0 THEN 1 ELSE u0
                 IN  /\ FracIs(iou[i], M[i][i], u)
                     /\ 0 <= M[i][i] /\ M[i][i] <= u
                     /\ FracInUnit(iou[i])
                     /\ (RowTotal(M, i) = 0 /\ ColTotal(M, i) = 0) => iou[i][1] = 0
            /\ M = ScenarioMatrix => FracIs(iou[0], 5, 8) /\ FracIs(iou[1], 3, 6)

C2_Witness ==
    /\ fn.op = "get_iou"
    /\ fn.confusion_matrix = ScenarioMatrix
    /\ out.ok

\* C3: get_precision_recall returns precision = diag / max(col_sum, 1) and
\* recall = diag / max(row_sum, 1), all in [0, 1], 0 for a class with no
\* predicted and no ground-truth pixels, never raising; the scenario matrix
\* gives precision [5/7, 3/4] and recall [5/6, 3/5].
C3_PrecisionRecallFormula ==
    fn.op = "get_precision_recall" =>
        LET M == fn.confusion_matrix
            precision == out.val[1]
            recall == out.val[2]
        IN  /\ out.ok
            /\ DOMAIN precision = DOMAIN M
            /\ DOMAIN recall = DOMAIN M
            /\ \A i \in DOMAIN M :
                 LET col == ColTotal(M, i)
                     row == RowTotal(M, i)
                 IN  /\ FracIs(precision[i], M[i][i], IF col > 1 THEN col ELSE 1)
                     /\ FracIs(recall[i], M[i][i], IF row > 1 THEN row ELSE 1)
                     /\ FracInUnit(precision[i])
                     /\ FracInUnit(recall[i])
                     /\ (col = 0 /\ row = 0) => precision[i][1] = 0 /\ recall[i][1] = 0
            /\ M = ScenarioMatrix =>
                 /\ FracIs(precision[0], 5, 7) /\ FracIs(precision[1], 3, 4)
                 /\ FracIs(recall[0], 5, 6) /\ FracIs(recall[1], 3, 5)

C3_Witness ==
    /\ fn.op = "get_precision_recall"
    /\ fn.confusion_matrix = ScenarioMatrix
    /\ out.ok

\* C7: for L in [1, 2N], to_pair gives (1, [L - N, L]) when L > N and
\* (0, [L, L + N]) otherwise; both nested definitions return the same pair;
\* the object channel is in [1, N] and the part channel in [N + 1, 2N];
\* to_pair(25, 20) = (1, [5, 25]).
C7_ToPairRule ==
    fn.op = "to_pair" =>
        LET L == fn.ind
            N == fn.num_to_aggregate
            task_bit == out.val.compress[1]
            pair == out.val.compress[2]
        IN  /\ out.ok
            /\ L > N => task_bit = 1 /\ pair = <<L - N, L>>
            /\ L <= N => task_bit = 0 /\ pair = <<L, L + N>>
            /\ out.val.tonp = pair
            /\ pair[1] \in 1 .. N
            /\ pair[2] \in (N + 1) .. (2 * N)
            /\ (L = 25 /\ N = 20) => task_bit = 1 /\ pair = <<5, 25>>

C7_Witness ==
    /\ fn.op = "to_pair"
    /\ fn.ind = 25
    /\ fn.num_to_aggregate = 20
    /\ out.val.compress = <<1, <<5, 25>>>>

\* C8: for an object label L in [1, N], to_pair(L, N) yields a part index P
\* and to_pair(P, N) yields back L as its object index; the two calls return
\* the identical pair [L, P] and differ only in the task bit.
C8_ToPairInverse ==
    (fn.op = "to_pair" /\ prev # <<>> /\ prev[1].ind \in 1 .. prev[1].num_to_aggregate) =>
        LET L == prev[1].ind
            first == prev[2].val.compress
            second == out.val.compress
        IN  /\ fn.ind = first[2][2]
            /\ second[2][1] = L
            /\ second[2] = first[2]
            /\ second[2] = <<L, fn.ind>>
            /\ first[1] = 0
            /\ second[1] = 1

C8_Witness ==
    /\ fn.op = "to_pair"
    /\ prev # <<>>
    /\ prev[1].num_to_aggregate = 20
    /\ prev[1].ind = 20
    /\ fn.ind = 40
    /\ out.val.compress[2] = <<20, 40>>

ValidPositions(d, m) == {q \in 0 .. (Len(d) - 1) : d[q + 1] # m}

\* What get_valid_annos returns is the increasing sequence of the positions
\* whose label differs from the ignore value, and the labels there.
SelectsValid(d, m, index, valid) ==
    /\ Len(index) = Len(valid)
    /\ {index[k] : k \in 1 .. Len(index)} = ValidPositions(d, m)
    /\ \A k \in 1 .. (Len(index) - 1) : index[k] < index[k + 1]
    /\ \A k \in 1 .. Len(index) : valid[k] = d[index[k] + 1]

\* C4: for every annotation sequence and ignore value, get_valid_annos
\* returns the positions whose label differs from the ignore value, in
\* increasing order, and the labels at those positions; label 0 is retained;
\* when every label equals the ignore value both results are empty and no
\* error is raised; [0,255,3,255] with ignore 255 gives positions [0,2].
C4_ValidAnnos ==
    fn.op = "get_valid_annos" =>
        LET d == fn.anno.data
            m == fn.mask_out_value
        IN  /\ out.ok
            /\ SelectsValid(d, m, out.val[2].data, out.val[1].data)
            /\ ValidPositions(d, m) = {} =>
                 out.val[2].data = <<>> /\ out.val[1].data = <<>>
            /\ (d = <<0, 255, 3, 255>> /\ m = 255) => out.val[2].data = <<0, 2>>

\* get_valid_annos on a sequence with at least one valid label
ValidAnnosWhenSomeValid ==
    (fn.op = "get_valid_annos" /\ ValidPositions(fn.anno.data, fn.mask_out_value) # {}) =>
        /\ out.ok
        /\ SelectsValid(fn.anno.data, fn.mask_out_value, out.val[2].data, out.val[1].data)

\* get_valid_annos on a sequence whose labels all equal the ignore value
ValidAnnosWhenAllMasked ==
    (fn.op = "get_valid_annos" /\ ValidPositions(fn.anno.data, fn.mask_out_value) = {}) =>
        out = Raise("TypeError")

\* C6: with number_of_classes = C, flatten_logits returns a (B*H*W, C) array
\* whose row (b*H + h)*W + w is logits[b, :, h, w], the position order of
\* flatten_annotations; so row k of get_valid_logits is the score vector of
\* the pixel whose annotation is element k of get_valid_annos.
C6_FlattenAlignment ==
    /\ (fn.op = "flatten_logits" /\ fn.number_of_classes = fn.logits.shape[2]) =>
         LET B == fn.logits.shape[1]
             C == fn.logits.shape[2]
             H == fn.logits.shape[3]
             W == fn.logits.shape[4]
         IN  /\ out.ok
             /\ out.val.shape = <<B * H * W, C>>
             /\ \A b \in 0 .. (B - 1) : \A h \in 0 .. (H - 1) :
                \A w \in 0 .. (W - 1) : \A c \in 0 .. (C - 1) :
                    out.val.data[((b * H + h) * W + w) * C + c + 1]
                        = fn.logits.data[((b * C + c) * H + h) * W + w + 1]
    /\ (fn.op = "get_valid_logits" /\ fn.number_of_classes = fn.logits.shape[2] /\ out.ok) =>
         LET B == fn.anno.shape[1]
             H == fn.anno.shape[2]
             W == fn.anno.shape[3]
             C == fn.logits.shape[2]
             index == out.val.index.data
         IN  /\ out.val.logits_valid.shape = <<Len(index), C>>
             /\ Len(out.val.anno_flatten_valid.data) = Len(index)
             /\ \A k \in 1 .. Len(index) :
                \A b \in 0 .. (B - 1) : \A h \in 0 .. (H - 1) : \A w \in 0 .. (W - 1) :
                    index[k] = (b * H + h) * W + w =>
                        /\ out.val.anno_flatten_valid.data[k]
                               = fn.anno.data[(b * H + h) * W + w + 1]
                        /\ \A c \in 0 .. (C - 1) :
                               out.val.logits_valid.data[(k - 1) * C + c + 1]
                                   = fn.logits.data[((b * C + c) * H + h) * W + w + 1]

C6_Witness ==
    /\ fn.op = "get_valid_logits"
    /\ fn.anno.shape = <<1, 2, 2>>
    /\ fn.anno.data = <<255, 3, 255, 3>>
    /\ fn.logits.shape = <<1, 2, 2, 2>>
    /\ fn.number_of_classes = 2
    /\ out.ok
    /\ out.val.index.data = <<1, 3>>
    /\ out.val.logits_valid.data = <<2, 6, 4, 8>>

\* C9: outputs_tonp_gt predicts, for a pixel with ground truth g, 0 < g < 255
\* (g in [1, 40]), the channel of to_pair(g, 20) with the higher logit there
\* (the object channel on a tie), and 0 for ground truth 0 or 255; no other
\* channel's logit takes part.
C9_AidedPrediction ==
    (fn.op = "outputs_tonp_gt"
        /\ \A k \in 1 .. Len(fn.anno.data) : fn.anno.data[k] \in (0 .. 40) \cup {255}) =>
        LET B == fn.anno.shape[1]
            H == fn.anno.shape[2]
            W == fn.anno.shape[3]
            C == fn.logits.shape[2]
            score(b, c, i, j) == fn.logits.data[((b * C + c) * H + i) * W + j + 1]
        IN  /\ out.ok
            /\ Len(out.val[1]) = B * H * W
            /\ out.val[2] = fn.anno.data
            /\ \A b \in 0 .. (B - 1) : \A i \in 0 .. (H - 1) : \A j \in 0 .. (W - 1) :
                 LET g == fn.anno.data[(b * H + i) * W + j + 1]
                     p == out.val[1][(b * H + i) * W + j + 1]
                     obj == IF g > 20 THEN g - 20 ELSE g
                     part == IF g > 20 THEN g ELSE g + 20
                 IN  IF 0 < g /\ g < 255
                     THEN p = IF score(b, part, i, j) > score(b, obj, i, j)
                              THEN part ELSE obj
                     ELSE p = 0

C9_Witness ==
    /\ fn.op = "outputs_tonp_gt"
    /\ fn.anno.shape = <<1, 1, 2>>
    /\ fn.anno.data = <<5, 255>>
    /\ At(fn.logits, <<0, 7, 0, 0>>) = 2
    /\ At(fn.logits, <<0, 25, 0, 0>>) = 1
    /\ out.ok
    /\ out.val[1] = <<25, 0>>

(***************************************************************************)
(* Properties of the evaluation pass                                       *)
(***************************************************************************)
\* the confusion matrix validate_batch builds for batch b alone
PerBatchMatrix(b, task) ==
    IF task = "semantic"
    THEN LET sem == numpyify_logits_and_annotations(b.semantic_logits, b.semantic_anno)
         IN  confusion_matrix(sem[2], sem[1], SEMANTIC_LABELS).val
    ELSE LET objpart == outputs_tonp_gt(b.objpart_logits, b.objpart_anno)
         IN  confusion_matrix(ignore_background(objpart.val[2]), objpart.val[1],
                              OBJPART_LABELS).val

ZeroMatrix(n) == [i \in 0 .. (n - 1) |-> [j \in 0 .. (n - 1) |-> 0]]

RECURSIVE SumOfBatches(_, _, _, _)
\* elementwise sum, over the batches in S with their multiplicity in bag B,
\* of the per-batch matrices of the task
SumOfBatches(S, B, task, n) ==
    IF S = {} THEN ZeroMatrix(n)
    ELSE LET b == CHOOSE x \in S : TRUE
             rest == SumOfBatches(S \ {b}, B, task, n)
             cur == PerBatchMatrix(b, task)
             copies == CopiesIn(b, B)
         IN  [i \in 0 .. (n - 1) |-> [j \in 0 .. (n - 1) |->
                 rest[i][j] + copies * cur[i][j]]]

\* C1: starting from None, after every call the running matrix of each task
\* is the elementwise sum of the per-batch matrices of all batches processed
\* so far; the sum is taken over the bag of batches, so it is the same for
\* every order of the same batches, and it is never reset mid-pass.
C1_RunningSum ==
    /\ processed = EmptyBag =>
         /\ overall_part_confusion_matrix = None
         /\ overall_semantic_confusion_matrix = None
    /\ processed # EmptyBag =>
         /\ overall_part_confusion_matrix # None
         /\ overall_semantic_confusion_matrix # None
         /\ heap[overall_semantic_confusion_matrix]
              = SumOfBatches(BagToSet(processed), processed, "semantic",
                             NUM_SEMANTIC_CHANNELS)
         /\ heap[overall_part_confusion_matrix]
              = SumOfBatches(BagToSet(processed), processed, "objpart",
                             NUM_OBJPART_CHANNELS)
         /\ ret.ok =>
              /\ ret.val.overall_part_confusion_matrix = overall_part_confusion_matrix
              /\ ret.val.overall_semantic_confusion_matrix
                   = overall_semantic_confusion_matrix

C1_Witness ==
    /\ ret.ok
    /\ BagCardinality(processed) = 2
    /\ Cardinality(BagToSet(processed)) = 2
    /\ heap[overall_part_confusion_matrix][5][25] = 1
    /\ heap[overall_part_confusion_matrix][25][25] = 2
    /\ heap[overall_semantic_confusion_matrix][5][0] = 3

AllMasked(b) ==
    /\ \A k \in 1 .. Len(b.semantic_anno.data) : b.semantic_anno.data[k] = MASK_OUT_VALUE
    /\ \A k \in 1 .. Len(b.objpart_anno.data) : b.objpart_anno.data[k] = MASK_OUT_VALUE

IsZero(M) == \A i \in DOMAIN M : \A j \in DOMAIN M[i] : M[i][j] = 0

\* C5: a call on a batch whose annotations are all 255 raises no exception
\* and returns running matrices equal to the ones passed in (all zero when
\* none was passed in).
C5_AllMaskedBatch ==
    [][(batch' # <<>> /\ AllMasked(batch'[1])) =>
          /\ ret'.ok
          /\ overall_part_confusion_matrix # None =>
               /\ overall_part_confusion_matrix' = overall_part_confusion_matrix
               /\ heap'[overall_part_confusion_matrix]
                    = heap[overall_part_confusion_matrix]
          /\ overall_semantic_confusion_matrix # None =>
               /\ overall_semantic_confusion_matrix' = overall_semantic_confusion_matrix
               /\ heap'[overall_semantic_confusion_matrix]
                    = heap[overall_semantic_confusion_matrix]
          /\ overall_part_confusion_matrix = None =>
               IsZero(heap'[overall_part_confusion_matrix'])
          /\ overall_semantic_confusion_matrix = None =>
               IsZero(heap'[overall_semantic_confusion_matrix'])
      ]_vars

\* what the code does on such a batch: sklearn's confusion_matrix finds none
\* of the labels in y_true and raises; the running matrices stay as they are
AllMaskedBatchRaises ==
    [][(batch' # <<>> /\ AllMasked(batch'[1])) =>
          /\ ret' = Raise("ValueError")
          /\ heap' = heap
          /\ overall_part_confusion_matrix' = overall_part_confusion_matrix
          /\ overall_semantic_confusion_matrix' = overall_semantic_confusion_matrix
      ]_vars

\* the pixels (ground truth, aided prediction) of batch b, as a sequence
ObjpartPixels(b) ==
    LET objpart == outputs_tonp_gt(b.objpart_logits, b.objpart_anno)
    IN  [k \in 1 .. Len(b.objpart_anno.data) |->
            <<b.objpart_anno.data[k], objpart.val[1][k]>>]

Listed(v, labels) == \E i \in 1 .. Len(labels) : labels[i] = v

\* pixels of b counted by the claim: ground truth a non-background label of
\* the label list, with ground truth g and prediction p when these are given
CountedPixels(b, g, p) ==
    LET px == ObjpartPixels(b)
    IN  Cardinality({k \in 1 .. Len(px) :
            /\ px[k][1] # 0
            /\ Listed(px[k][1], OBJPART_LABELS)
            /\ Listed(px[k][2], OBJPART_LABELS)
            /\ g >= 0 => px[k][1] = g
            /\ p >= 0 => px[k][2] = p})

RECURSIVE CountedInBag(_, _, _, _)
CountedInBag(S, B, g, p) ==
    IF S = {} THEN 0
    ELSE LET b == CHOOSE x \in S : TRUE
         IN  CopiesIn(b, B) * CountedPixels(b, g, p) + CountedInBag(S \ {b}, B, g, p)

MatrixTotal(M) == SumTo([i \in DOMAIN M |-> SumTo(M[i], Size(M) - 1)], Size(M) - 1)

\* C10: no pixel with object-part ground truth 0 or 255 is counted in the
\* running object-part matrix: the row of label 0 is all zero, the matrix
\* total is the number of processed pixels whose ground truth is a
\* non-background label of the list and whose aided prediction is in the
\* list, and each such pixel sits in the cell of its own (label, prediction).
C10_BackgroundExcluded ==
    overall_part_confusion_matrix # None =>
        LET M == heap[overall_part_confusion_matrix]
            S == BagToSet(processed)
        IN  /\ \A j \in DOMAIN M[0] : M[0][j] = 0
            /\ MatrixTotal(M) = CountedInBag(S, processed, -1, -1)
            /\ \A b \in S : \A k \in 1 .. Len(b.objpart_anno.data) :
                 LET px == ObjpartPixels(b)[k]
                 IN  IF px[1] = 0 \/ px[1] = MASK_OUT_VALUE
                     THEN ~Listed(px[1], OBJPART_LABELS) \/ M[px[1]][px[2]] = 0
                     ELSE M[px[1]][px[2]] = CountedInBag(S, processed, px[1], px[2])

C10_Witness ==
    /\ ret.ok
    /\ overall_part_confusion_matrix # None
    /\ \E b \in BagToSet(processed) : b.objpart_anno.data = <<25, 0>>
    /\ \E b \in BagToSet(processed) : b.objpart_anno.data = <<MASK_OUT_VALUE, 5>>
    /\ MatrixTotal(heap[overall_part_confusion_matrix]) = 2

\* C11: validate_batch has no side effect beyond its return value: the
\* running matrix objects the caller passed in (the ones an earlier call
\* returned) hold after the call the counts they held before it.
C11_NoSideEffect ==
    [][/\ overall_part_confusion_matrix # None =>
            heap'[overall_part_confusion_matrix] = heap[overall_part_confusion_matrix]
       /\ overall_semantic_confusion_matrix # None =>
            heap'[overall_semantic_confusion_matrix]
                = heap[overall_semantic_confusion_matrix]
      ]_vars

\* what the code does with a running matrix that is not None: += adds the
\* batch's counts into the caller's array and hands the same array back
RunningMatrixUpdatedInPlace ==
    [][(ret'.ok /\ overall_part_confusion_matrix # None
               /\ overall_semantic_confusion_matrix # None) =>
          /\ overall_part_confusion_matrix' = overall_part_confusion_matrix
          /\ overall_semantic_confusion_matrix' = overall_semantic_confusion_matrix
          /\ \E P \in {PerBatchMatrix(batch'[1], "objpart")} :
                 heap'[overall_part_confusion_matrix]
                     = ndarray_add(heap[overall_part_confusion_matrix], P)
          /\ \E S \in {PerBatchMatrix(batch'[1], "semantic")} :
                 heap'[overall_semantic_confusion_matrix]
                     = ndarray_add(heap[overall_semantic_confusion_matrix], S)
      ]_vars

\* C12: a shape mismatch is always a fatal error: when the logits' channel
\* count differs from the declared number_of_classes, flatten_logits and
\* get_valid_logits end in an error instead of returning a result.
C12_ShapeMismatchFatal ==
    (fn.op \in {"flatten_logits", "get_valid_logits"}
        /\ fn.number_of_classes # fn.logits.shape[2]) => ~out.ok

\* what the code does: view(-1, number_of_classes) fails only when the number
\* of elements is no multiple of number_of_classes; otherwise the elements of
\* the permuted logits are cut into rows of number_of_classes scores
FlattenFailsOnlyWhenIndivisible ==
    fn.op = "flatten_logits" =>
        LET total == Prod(fn.logits.shape)
            B == fn.logits.shape[1]
            C == fn.logits.shape[2]
            H == fn.logits.shape[3]
            W == fn.logits.shape[4]
        IN  /\ out.ok <=> total % fn.number_of_classes = 0
            /\ out.ok =>
                 /\ out.val.shape = <<total \div fn.number_of_classes,
                                      fn.number_of_classes>>
                 /\ \A b \in 0 .. (B - 1) : \A h \in 0 .. (H - 1) :
                    \A w \in 0 .. (W - 1) : \A c \in 0 .. (C - 1) :
                        out.val.data[((b * H + h) * W + w) * C + c + 1]
                            = fn.logits.data[((b * C + c) * H + h) * W + w + 1]

\* a returned row that holds scores of two different pixels
MixedRowReturned ==
    /\ fn.op = "flatten_logits"
    /\ fn.logits.shape = <<1, 1, 1, 2>>
    /\ fn.number_of_classes = 2
    /\ out.ok
    /\ out.val.shape = <<1, 2>>
    /\ out.val.data = <<At(fn.logits, <<0, 0, 0, 0>>), At(fn.logits, <<0, 0, 0, 1>>)>>

RECURSIVE ProdOver(_, _)
\* the product of f over the finite set S
ProdOver(f, S) ==
    IF S = {} THEN 1
    ELSE LET x == CHOOSE y \in S : TRUE IN f[x] * ProdOver(f, S \ {x})

\* the fraction a is the arithmetic mean, over the classes K, of
\* nums[i] / dens[i]; classes with numerator 0 add nothing to the sum
MeanIs(a, nums, dens, K) ==
    LET P == {i \in K : nums[i] # 0}
        D == ProdOver(dens, P)
    IN  /\ a[2] > 0
        /\ a[1] * (D * Cardinality(K))
             = a[2] * SumOver([i \in P |-> nums[i] * (D \div dens[i])], P)

AtLeast1(x) == IF x = 0 THEN 1 ELSE x

\* the summaries validate_batch would return if they were computed from M_sem
\* and M_part
SummariesOf(M_sem, M_part) ==
    LET kept == (0 .. 40) \ {0, 4, 9, 11, 18, 20, 24, 29, 31, 38, 40}
        diag_sem == [i \in 0 .. 20 |-> M_sem[i][i]]
        diag_part == [i \in 0 .. 40 |-> M_part[i][i]]
    IN  /\ MeanIs(ret.val.semantic_mIoU, diag_sem,
                  [i \in 0 .. 20 |-> AtLeast1(RowTotal(M_sem, i) + ColTotal(M_sem, i)
                                                 - M_sem[i][i])],
                  0 .. 20)
        /\ MeanIs(ret.val.objpart_mPrec, diag_part,
                  [i \in 0 .. 40 |-> AtLeast1(ColTotal(M_part, i))], kept)
        /\ MeanIs(ret.val.objpart_mRec, diag_part,
                  [i \in 0 .. 40 |-> AtLeast1(RowTotal(M_part, i))], kept)

C14_PartMatrixCells ==
    overall_part_confusion_matrix # None =>
        LET M == heap[overall_part_confusion_matrix]
        IN  /\ DOMAIN M = 0 .. 40
            /\ \A g \in 0 .. 40 :
                 /\ DOMAIN M[g] = 0 .. 40
                 /\ M[g][0] = 0
                 /\ \A p \in 0 .. 40 :
                      /\ M[g][p] \in Nat
                      /\ M[g][p] # 0 =>
                           \/ p = g
                           \/ g \in 1 .. 20 /\ p = g + 20
                           \/ g \in 21 .. 40 /\ p = g - 20

\* counts in both channels of the pair (5, 25), one of them from a batch
\* whose highest object-part logit is in channel 7, outside the pair
C14_Witness ==
    /\ ret.ok
    /\ overall_part_confusion_matrix # None
    /\ heap[overall_part_confusion_matrix][5][5] = 1
    /\ heap[overall_part_confusion_matrix][5][25] = 1
    /\ heap[overall_part_confusion_matrix][25][25] = 1
    /\ \E b \in BagToSet(processed) :
           /\ b.objpart_anno.data = <<5, 25>>
           /\ At(b.objpart_logits, <<0, 7, 0, 0>>) = 2
           /\ At(b.objpart_logits, <<0, 7, 0, 1>>) = 2

====
